---- MODULE Spec2Model ----
(***************************************************************************)
(* The AdaGrad optimizer of ada_grad/ada_grad.hpp: a wrapper class that    *)
(* holds an SGD<DecomposableFunctionType, AdaGradUpdate> member and        *)
(* forwards Optimize and the configuration accessors to it.                *)
(*                                                                         *)
(* The SGD driver (sgd/sgd.hpp) and the update policy                      *)
(* (ada_grad_update.hpp) are included by the header but are not part of    *)
(* the sources at hand; their loop and update rule are modelled from the   *)
(* design document (sections 3, 4.1 and 4.2).                              *)
(*                                                                         *)
(* Arithmetic: the code computes in double; the model computes on          *)
(* integers, with sqrt as the integer square root and / as the quotient    *)
(* truncated toward zero.                                                  *)
(***************************************************************************)
EXTENDS Integers, Sequences, FiniteSets

\* ---------------------------------------------------------------- bounds
\* Number of coordinates of the iterate.
Dim == 2
\* Largest number of terms NumFunctions() returns.
MaxN == 2
\* Cap on the per-term updates of one run; it stops only a run that neither
\* converges nor has an iteration limit below it.
MaxT == 6
\* Optimizer instances constructed in one behaviour of SpecRepeat.
MaxInstances == 2
\* Optimize calls on one instance.
MaxRuns == 2
\* Writes through the accessors on one instance.
MaxWrites == 1

\* ---------------------------------------------------------------- inputs
StepSizes == {2, 3}
Epsilons == {1, 2}
MaxIterationsValues == {0, 3}
Tolerances == {1, 3}

Coords == 1..Dim

\* Every configuration over the value sets.
AllConfigs ==
  [stepSize: StepSizes, epsilon: Epsilons, maxIterations: MaxIterationsValues,
   tolerance: Tolerances, shuffle: BOOLEAN]

\* The configurations an optimizer is constructed with in Spec; the accessors
\* reach the others.
Configs ==
  { [stepSize |-> 2, epsilon |-> 1, maxIterations |-> 0, tolerance |-> 3, shuffle |-> FALSE],
    [stepSize |-> 3, epsilon |-> 2, maxIterations |-> 3, tolerance |-> 1, shuffle |-> TRUE],
    [stepSize |-> 3, epsilon |-> 1, maxIterations |-> 3, tolerance |-> 3, shuffle |-> FALSE],
    [stepSize |-> 2, epsilon |-> 2, maxIterations |-> 0, tolerance |-> 1, shuffle |-> TRUE] }

\* Starting points the caller hands to Optimize.
StartPoints ==
  { [k \in Coords |-> IF k = 1 THEN 4 ELSE -3],
    [k \in Coords |-> IF k = 1 THEN -1 ELSE 2] }

\* ------------------------------------------------------------ arithmetic
Abs(x) == IF x < 0 THEN -x ELSE x

Sign(x) == IF x < 0 THEN -1 ELSE IF x > 0 THEN 1 ELSE 0

RECURSIVE SqrtFrom(_, _)
SqrtFrom(r, x) == IF (r + 1) * (r + 1) > x THEN r ELSE SqrtFrom(r + 1, x)

\* arma::sqrt on one element.
Sqrt(x) == SqrtFrom(0, x)

\* a / b for b > 0, truncated toward zero.
Div(a, b) == Sign(a) * (Abs(a) \div b)

\* ------------------------------------------------ the decomposable objective
\* Term i is the squared distance of some coordinates from the i-th data
\* value: term 1 reads the first two coordinates (sharing coordinate 1 with
\* term 0), every other term reads one coordinate.
TermCoords(i) == IF i = 1 THEN {k \in Coords : k <= 2} ELSE {(i % Dim) + 1}

TermTarget(i) == ((2 * i) % 5) - 1

RECURSIVE SquaredDistance(_, _, _)
SquaredDistance(x, i, k) ==
  IF k = 0 THEN 0
  ELSE SquaredDistance(x, i, k - 1)
         + (IF k \in TermCoords(i) THEN (x[k] - TermTarget(i)) * (x[k] - TermTarget(i)) ELSE 0)

\* function.Evaluate(coordinates, i)
Evaluate(x, i) == SquaredDistance(x, i, Dim)

\* function.Gradient(coordinates, i, gradient)
Gradient(x, i) ==
  [k \in Coords |-> IF k \in TermCoords(i) THEN 2 * (x[k] - TermTarget(i)) ELSE 0]

RECURSIVE SumEvaluate(_, _)
SumEvaluate(x, n) == IF n = 0 THEN 0 ELSE SumEvaluate(x, n - 1) + Evaluate(x, n - 1)

\* The objective value of a point: the sum of all n terms.
Objective(x, n) == SumEvaluate(x, n)

\* Permutations of the term indices 0..n-1, as sequences.
VisitationOrders(n) ==
  { p \in [1..n -> 0..(n - 1)] : \A a, b \in 1..n : p[a] = p[b] => a = b }

\* The linear order 0,1,...,n-1.
Identity(n) == [a \in 1..n |-> a - 1]

\* ------------------------------------------------------------------ state
VARIABLES
  function,         \* the objective the instance was constructed with (its term count)
  members,          \* AdaGrad's own stepSize, epsilon, maxIterations, tolerance, shuffle
  optimizer,        \* the SGD member: its configuration and its update policy
  iterate,          \* the caller's matrix handed to Optimize
  pc,               \* Created, Running, Converged, IterationLimitReached, ConfigurationError
  t,                \* sampled terms processed in the current run
  currentObjective, \* the driver's running objective
  converged,        \* the convergence test of step 3e has succeeded
  visitationOrder,  \* the sampling order of the current epoch
  result,           \* the value Optimize returned
  given,            \* history: the value most recently given for each parameter
  instance,         \* history: optimizer instances constructed so far
  initialEpsilon,   \* history: the epsilon this instance was constructed with
  runs,             \* history: Optimize calls on this instance
  writes,           \* history: accessor writes on this instance
  fetched,          \* history: term indices whose gradient was fetched this epoch
  epochs,           \* history: sampling orders built in the current run
  begin,            \* history: iterate, accumulator and configuration at the last Optimize call
  reference         \* history: the first finished run without shuffling

vars ==
  << function, members, optimizer, iterate, pc, t, currentObjective, converged,
     visitationOrder, result, given, instance, initialEpsilon, runs, writes,
     fetched, epochs, begin, reference >>

NoRun == [run |-> FALSE]

\* ------------------------------------------------------------ construction
\* AdaGradUpdate(epsilon): the accumulator starts at epsilon in every coordinate.
AdaGradUpdate(epsilon) ==
  [epsilon |-> epsilon, squaredGradient |-> [k \in Coords |-> epsilon]]

\* SGD(function, stepSize, maxIterations, tolerance, shuffle, updatePolicy)
SGD(stepSize, maxIterations, tolerance, shuffle, updatePolicy) ==
  [stepSize |-> stepSize, maxIterations |-> maxIterations, tolerance |-> tolerance,
   shuffle |-> shuffle, updatePolicy |-> updatePolicy]

\* A constructor that reads the class's own (never assigned) members instead
\* of its parameters.
AdaGradFromMembers(args, uninit) ==
  SGD(uninit.stepSize, uninit.maxIterations, uninit.tolerance, uninit.shuffle,
      AdaGradUpdate(uninit.epsilon))

\* AdaGrad::AdaGrad: the parameters shadow the members of the same names, so
\* the SGD member is built from the arguments; the members stay unassigned.
AdaGrad(args, uninit) ==
  SGD(args.stepSize, args.maxIterations, args.tolerance, args.shuffle,
      AdaGradUpdate(args.epsilon))

\* What the unassigned members can hold.
Uninitialised ==
  { [stepSize |-> 2, epsilon |-> 1, maxIterations |-> 0, tolerance |-> 1, shuffle |-> TRUE],
    [stepSize |-> 3, epsilon |-> 1, maxIterations |-> 5, tolerance |-> 3, shuffle |-> FALSE] }

Constructed(args, n, uninit) ==
  /\ function' = [n |-> n]
  /\ members' = uninit
  /\ optimizer' = AdaGrad(args, uninit)
  /\ given' = args
  /\ initialEpsilon' = args.epsilon
  /\ iterate' = [k \in Coords |-> 0]
  /\ pc' = "Created"
  /\ t' = 0
  /\ currentObjective' = 0
  /\ converged' = FALSE
  /\ visitationOrder' = << >>
  /\ result' = 0
  /\ runs' = 0
  /\ writes' = 0
  /\ fetched' = << >>
  /\ epochs' = 0
  /\ begin' = [iterate |-> [k \in Coords |-> 0],
               squaredGradient |-> AdaGrad(args, uninit).updatePolicy.squaredGradient,
               given |-> args]

InitFrom(configs) ==
  \E args \in configs, n \in 0..MaxN, uninit \in Uninitialised :
    /\ function = [n |-> n]
    /\ members = uninit
    /\ optimizer = AdaGrad(args, uninit)
    /\ given = args
    /\ instance = 1
    /\ initialEpsilon = args.epsilon
    /\ iterate = [k \in Coords |-> 0]
    /\ pc = "Created"
    /\ t = 0
    /\ currentObjective = 0
    /\ converged = FALSE
    /\ visitationOrder = << >>
    /\ result = 0
    /\ runs = 0
    /\ writes = 0
    /\ fetched = << >>
    /\ epochs = 0
    /\ begin = [iterate |-> [k \in Coords |-> 0],
                squaredGradient |-> AdaGrad(args, uninit).updatePolicy.squaredGradient,
                given |-> args]
    /\ reference = NoRun

Init == InitFrom(Configs)

Idle == pc # "Running"

\* -------------------------------------------------------------- accessors
\* AdaGrad's own epsilon member, which no accessor reads.
MemberEpsilon == members.epsilon

StepSize == optimizer.stepSize
Epsilon == optimizer.updatePolicy.epsilon
MaxIterations == optimizer.maxIterations
Tolerance == optimizer.tolerance
Shuffle == optimizer.shuffle

Written ==
  /\ Idle
  /\ writes < MaxWrites
  /\ writes' = writes + 1
  /\ UNCHANGED << function, members, iterate, pc, t, currentObjective, converged,
                  visitationOrder, result, instance, initialEpsilon, runs, fetched,
                  epochs, begin, reference >>

\* Writes that land in AdaGrad's own member of the same name instead of the
\* SGD member's field.
WrittenToMember ==
  /\ Idle
  /\ writes < MaxWrites
  /\ writes' = writes + 1
  /\ UNCHANGED << function, optimizer, iterate, pc, t, currentObjective, converged,
                  visitationOrder, result, instance, initialEpsilon, runs, fetched,
                  epochs, begin, reference >>

SetMemberMaxIterations ==
  \E v \in MaxIterationsValues :
    /\ WrittenToMember
    /\ members' = [members EXCEPT !.maxIterations = v]
    /\ given' = [given EXCEPT !.maxIterations = v]

SetMemberShuffle ==
  \E v \in BOOLEAN :
    /\ WrittenToMember
    /\ members' = [members EXCEPT !.shuffle = v]
    /\ given' = [given EXCEPT !.shuffle = v]

\* optimizer.StepSize() = v
SetStepSize ==
  \E v \in StepSizes :
    /\ Written
    /\ optimizer' = [optimizer EXCEPT !.stepSize = v]
    /\ given' = [given EXCEPT !.stepSize = v]

\* optimizer.Epsilon() = v: the policy's epsilon; the accumulator is untouched.
SetEpsilon ==
  \E v \in Epsilons :
    /\ Written
    /\ optimizer' = [optimizer EXCEPT !.updatePolicy.epsilon = v]
    /\ given' = [given EXCEPT !.epsilon = v]

SetMaxIterations ==
  \E v \in MaxIterationsValues :
    /\ Written
    /\ optimizer' = [optimizer EXCEPT !.maxIterations = v]
    /\ given' = [given EXCEPT !.maxIterations = v]

SetTolerance ==
  \E v \in Tolerances :
    /\ Written
    /\ optimizer' = [optimizer EXCEPT !.tolerance = v]
    /\ given' = [given EXCEPT !.tolerance = v]

SetShuffle ==
  \E v \in BOOLEAN :
    /\ Written
    /\ optimizer' = [optimizer EXCEPT !.shuffle = v]
    /\ given' = [given EXCEPT !.shuffle = v]

\* ------------------------------------------------------- the update policy
\* squaredGradient += gradient % gradient
Accumulate(squaredGradient, gradient) ==
  [k \in Coords |-> squaredGradient[k] + gradient[k] * gradient[k]]

\* The step of one coordinate.
Step(stepSize, g, accumulated, epsilon) == Div(stepSize * g, Sqrt(accumulated) + epsilon)

\* AdaGradUpdate::Update(iterate, stepSize, gradient): first the accumulator
\* grows by the squared gradient, then the iterate moves by the step scaled
\* with the grown accumulator.
Update(policy, x, stepSize, gradient) ==
  LET grown == Accumulate(policy.squaredGradient, gradient) IN
  [updatePolicy |-> [policy EXCEPT !.squaredGradient = grown],
   iterate |->
     [k \in Coords |-> x[k] - Step(stepSize, gradient[k], grown[k], policy.epsilon)]]

\* ------------------------------------------------------------ the driver
\* A call that runs on a newly built update policy instead of the stored one.
OptimizeOnFreshPolicy(opt) ==
  [opt EXCEPT !.updatePolicy = AdaGradUpdate(opt.updatePolicy.epsilon)]

\* AdaGrad::Optimize forwards to the stored SGD member, as it is.
OptimizeOn(opt) == opt

\* The orders step 3a can build.
EpochOrders(shuffle, n) == IF shuffle THEN VisitationOrders(n) ELSE {Identity(n)}

\* AdaGrad::Optimize(iterate): steps 1 and 2 of the driver.
Optimize ==
  \E x0 \in StartPoints :
    /\ Idle
    /\ runs < MaxRuns
    /\ runs' = runs + 1
    /\ optimizer' = OptimizeOn(optimizer)
    /\ iterate' = x0
    /\ begin' = [iterate |-> x0,
                 squaredGradient |-> optimizer.updatePolicy.squaredGradient,
                 given |-> given]
    /\ t' = 0
    /\ converged' = FALSE
    /\ visitationOrder' = << >>
    /\ fetched' = << >>
    /\ epochs' = 0
    /\ IF function.n = 0
         THEN /\ pc' = "ConfigurationError"
              /\ UNCHANGED currentObjective
         ELSE /\ pc' = "Running"
              /\ currentObjective' = Objective(x0, function.n)
    /\ UNCHANGED << function, members, result, given, instance, initialEpsilon, writes,
                    reference >>

\* The loop of step 3 goes on.
LoopGoesOn ==
  /\ pc = "Running"
  /\ ~ converged
  /\ ~ (optimizer.maxIterations # 0 /\ t >= optimizer.maxIterations)

\* Step 3e: the term just processed, the one counted as number count + 1,
\* was the last of its epoch.
EpochEnd(count, n) == (count + 1) % n = 0

\* One pass of the loop body, steps 3a to 3f: build the order at an epoch
\* start, fetch the gradient of the next index at the current iterate, apply
\* the update, test convergence after the last term of an epoch, count the
\* term. The loop condition is looked at again only after the whole pass, so
\* t counts every term that was processed.
Iteration ==
  /\ LoopGoesOn
  /\ t < MaxT
  /\ LET n == function.n
         epochStart == (t % n = 0)
     IN
     \E order \in (IF epochStart THEN EpochOrders(optimizer.shuffle, n)
                                 ELSE {visitationOrder}) :
       LET i == order[(t % n) + 1]
           gradient == Gradient(iterate, i)
           updated == Update(optimizer.updatePolicy, iterate, optimizer.stepSize, gradient)
           epochEnd == EpochEnd(t, n)
           newObjective == Objective(updated.iterate, n)
           close == Abs(currentObjective - newObjective) < optimizer.tolerance
       IN
       /\ visitationOrder' = order
       /\ epochs' = IF epochStart THEN epochs + 1 ELSE epochs
       /\ fetched' = IF epochStart THEN << i >> ELSE Append(fetched, i)
       /\ optimizer' = [optimizer EXCEPT !.updatePolicy = updated.updatePolicy]
       /\ iterate' = updated.iterate
       /\ converged' = (epochEnd /\ close)
       /\ currentObjective' = IF epochEnd /\ ~ close THEN newObjective ELSE currentObjective
       /\ t' = t + 1
  /\ UNCHANGED << function, members, pc, result, given, instance, initialEpsilon,
                  runs, writes, begin, reference >>

\* What the run that is ending leaves for later comparison.
ThisRun ==
  [run |-> TRUE, n |-> function.n, given |-> begin.given, start |-> begin.iterate,
   squaredGradient |-> begin.squaredGradient, instance |-> instance,
   iterate |-> iterate, result |-> currentObjective]

\* The loop has ended; step 4 returns currentObjective. The driver's locals
\* (the order, the running objective) end with the call; t stays as the count
\* of the finished run.
Returned ==
  /\ pc = "Running"
  /\ ~ LoopGoesOn
  /\ pc' = IF converged THEN "Converged" ELSE "IterationLimitReached"
  /\ result' = currentObjective
  /\ currentObjective' = 0
  /\ converged' = FALSE
  /\ visitationOrder' = << >>
  /\ fetched' = << >>
  /\ epochs' = 0
  /\ UNCHANGED << function, members, optimizer, iterate, t, given, instance,
                  initialEpsilon, runs, writes, begin >>

Return ==
  /\ Returned
  /\ UNCHANGED reference

Next ==
  \/ SetStepSize
  \/ SetEpsilon
  \/ SetMaxIterations
  \/ SetTolerance
  \/ SetShuffle
  \/ Optimize
  \/ Iteration
  \/ Return

Spec == Init /\ [][Next]_vars

\* ------------------------------------------------- repeated invocations
\* The same objective and configuration, optimized again and again without
\* shuffling: on the same instance, or on an instance constructed anew with
\* the same arguments. The first finished run is kept for comparison.
InitRepeat == InitFrom({c \in AllConfigs : ~ c.shuffle})

Reconstruct ==
  /\ Idle
  /\ runs > 0
  /\ instance < MaxInstances
  /\ instance' = instance + 1
  /\ \E uninit \in Uninitialised : Constructed(given, function.n, uninit)
  /\ UNCHANGED reference

ReturnRecorded ==
  /\ Returned
  /\ reference' = IF reference.run THEN reference ELSE ThisRun

NextRepeat ==
  \/ Reconstruct
  \/ Optimize
  \/ Iteration
  \/ ReturnRecorded

SpecRepeat == InitRepeat /\ [][NextRepeat]_vars

\* ================================================================ claims
Finished == pc \in {"Converged", "IterationLimitReached"}

\* The loop has just ended and Optimize is about to return.
LoopEnded == pc = "Running" /\ ~ LoopGoesOn

squaredGradient == optimizer.updatePolicy.squaredGradient

\* C1: the value Optimize returns is the objective of the final point: the
\* sum of all n terms evaluated at the iterate as Optimize leaves it.
C1_ReturnsObjectiveOfFinalPoint ==
  Finished => result = Objective(iterate, function.n)

\* C2: with n > 1 terms, when the loop ends the count of processed terms is
\* a multiple of n or equals maxIterations, and the convergence test succeeds
\* only right after the last term of an epoch.
C2_EpochBoundaryTermination ==
  /\ (function.n > 1 /\ (LoopEnded \/ Finished))
       => (t % function.n = 0 \/ t = begin.given.maxIterations)
  /\ (function.n > 1 /\ ((pc = "Running" /\ converged) \/ pc = "Converged"))
       => (t > 0 /\ t % function.n = 0)

C2_Witness ==
  /\ function.n > 1
  /\ pc = "Converged"
  /\ t = 2 * function.n
  /\ begin.given.maxIterations = 0

\* C3: with maxIterations = M # 0 a run never applies more than M per-term
\* updates and applies exactly M when it ends in IterationLimitReached; with
\* maxIterations = 0 a run never ends in IterationLimitReached.
C3_BudgetCountsUpdates ==
  /\ (pc = "Running" \/ Finished) /\ begin.given.maxIterations # 0
       => t <= begin.given.maxIterations
  /\ pc = "IterationLimitReached"
       => (begin.given.maxIterations # 0 /\ t = begin.given.maxIterations)
  /\ Finished /\ begin.given.maxIterations = 0 => pc = "Converged"

C3_Witness ==
  /\ pc = "IterationLimitReached"
  /\ function.n = 2
  /\ t = 3

\* C4: with NumFunctions() = 0 Optimize fails with a ConfigurationError before
\* any step: no order is built, no gradient is fetched, and the iterate and
\* the accumulator are what they were before the call.
C4_ZeroTermsFailsUntouched ==
  /\ function.n = 0 => pc \in {"Created", "ConfigurationError"}
  /\ pc = "ConfigurationError"
       => /\ function.n = 0
          /\ t = 0 /\ epochs = 0 /\ fetched = << >>
          /\ iterate = begin.iterate
          /\ squaredGradient = begin.squaredGradient

C4_Witness ==
  /\ pc = "ConfigurationError"
  /\ writes = 1
  /\ Epsilon # initialEpsilon

\* A finished run that started from the same point, with the same objective
\* and the same configuration, as the run kept for comparison.
RepeatsReference ==
  /\ Finished
  /\ reference.run
  /\ function.n = reference.n
  /\ begin.given = reference.given
  /\ begin.iterate = reference.start

SameOutcome == iterate = reference.iterate /\ result = reference.result

\* C5 as stated: without shuffling, every repeated invocation (a later call
\* on the same instance, or a call on a newly constructed one) ends with the
\* same iterate and returns the same value.
C5_RepeatedRunsAgree == RepeatsReference => SameOutcome

\* C5 as amended: without shuffling, repeated invocations that also start
\* from the same accumulator (as calls on newly constructed instances do) end
\* with the same iterate and return the same value.
C5_RepeatedRunsAgreeFromSameAccumulator ==
  (RepeatsReference /\ begin.squaredGradient = reference.squaredGradient) => SameOutcome

C5_Witness ==
  /\ RepeatsReference
  /\ begin.squaredGradient = reference.squaredGradient
  /\ instance > reference.instance
  /\ iterate # begin.iterate

\* C6: each accessor reads the value most recently given for its parameter, a
\* write changes only its own parameter, and a run uses the values the
\* accessors report when it is called.
C6_AccessorsReadWhatWasGiven ==
  /\ StepSize = given.stepSize
  /\ Epsilon = given.epsilon
  /\ MaxIterations = given.maxIterations
  /\ Tolerance = given.tolerance
  /\ Shuffle = given.shuffle
  /\ pc = "Running" => begin.given = given
  /\ pc = "Running" /\ t > 0 /\ ~ Shuffle => visitationOrder = Identity(function.n)
  /\ LoopEnded /\ ~ converged => t = MaxIterations

C6_Witness ==
  /\ pc = "Running"
  /\ writes = 1
  /\ t = 3
  /\ MaxIterations = 3
  /\ given # [given EXCEPT !.maxIterations = members.maxIterations]

\* C7 as stated: accumulator[k] >= the currently configured epsilon, for
\* every coordinate k, in every reachable state.
C7_AccumulatorAtLeastCurrentEpsilon ==
  \A k \in Coords : squaredGradient[k] >= Epsilon

\* C7 as amended: accumulator[k] >= the epsilon the instance was constructed
\* with (the initial floor), for every coordinate k, in every reachable state.
C7_AccumulatorAtLeastInitialEpsilon ==
  \A k \in Coords : squaredGradient[k] >= initialEpsilon

C7_Witness ==
  /\ Finished
  /\ runs = 2
  /\ initialEpsilon = 2
  /\ Epsilon = 1
  /\ \E k \in Coords : squaredGradient[k] = initialEpsilon

\* C8: no step makes any accumulator[k] smaller, and an Optimize call starts
\* from the accumulator as the previous call left it.
C8_AccumulatorMonotonic ==
  [][ /\ \A k \in Coords : squaredGradient'[k] >= squaredGradient[k]
      /\ runs' # runs => squaredGradient' = squaredGradient ]_vars

C8_Witness ==
  /\ runs = 2
  /\ pc = "Running"
  /\ t = 0
  /\ \E k \in Coords : squaredGradient[k] > initialEpsilon + 3

\* C9: a per-term update takes the gradient g of the fetched term at the
\* iterate the previous update left, adds g[k]^2 to accumulator[k], and then
\* moves iterate[k] by the quotient of stepSize * g[k] by
\* sqrt(accumulator[k]) + epsilon, with accumulator[k] already increased.
C9_UpdateRule ==
  [][ t' = t + 1 =>
        LET g == Gradient(iterate, fetched'[Len(fetched')]) IN
        \A k \in Coords :
          LET moved == iterate[k] - iterate'[k]
              numerator == given.stepSize * g[k]
              denominator == Sqrt(squaredGradient'[k]) + given.epsilon
          IN
          /\ squaredGradient'[k] = squaredGradient[k] + g[k] * g[k]
          /\ moved * numerator >= 0
          /\ Abs(moved) * denominator <= Abs(numerator)
          /\ Abs(numerator) < (Abs(moved) + 1) * denominator ]_vars

\* An update whose step differs from the one the accumulator before the
\* update would have given.
C9_Witness ==
  /\ pc = "Running"
  /\ t = 1
  /\ \E k \in Coords :
       LET g == Gradient(begin.iterate, fetched[1])[k] IN
       /\ begin.iterate[k] - iterate[k] # 0
       /\ begin.iterate[k] - iterate[k]
            # Step(StepSize, g, begin.squaredGradient[k], Epsilon)

\* C10: a sampling order is built exactly when t mod n = 0; the order is a
\* permutation of [0,n), the identity without shuffling; the gradients
\* fetched in an epoch follow it, so that a completed epoch has fetched every
\* index exactly once.
C10_SamplingOrder ==
  pc = "Running" =>
    LET n == function.n IN
    /\ epochs * n >= t
    /\ t > 0 => (epochs - 1) * n < t
    /\ t = 0 => fetched = << >>
    /\ t > 0 =>
         /\ visitationOrder \in VisitationOrders(n)
         /\ Len(fetched) = t - (epochs - 1) * n
         /\ \A a \in 1..Len(fetched) : fetched[a] = visitationOrder[a]
         /\ ~ begin.given.shuffle => visitationOrder = Identity(n)
         /\ t % n = 0 =>
              \A i \in 0..(n - 1) : Cardinality({a \in 1..Len(fetched) : fetched[a] = i}) = 1

C10_Witness ==
  /\ pc = "Running"
  /\ function.n = 2
  /\ t = 4
  /\ epochs = 2
  /\ begin.given.shuffle
  /\ fetched = << 1, 0 >>

====
